---- MODULE Spec2Model ----
(***************************************************************************)
(* Model of pygicord.Paginator (src/pygicord/__init__.py): a reaction      *)
(* driven pagination session.  The state is the constructor's arguments,   *)
(* the Paginator object's slots, the position of the calling code, of the  *)
(* paginator() task and of the add_reactions() task, and the message the   *)
(* session is bound to on the chat platform.                               *)
(*                                                                         *)
(* The reaction glyphs are written by role:                                *)
(*   "first" = U+23EE, "prev" = U+25C0, "stop" = U+23F9, "next" = U+25B6,  *)
(*   "last" = U+23ED, "input" = U+1F522.                                   *)
(***************************************************************************)
EXTENDS Integers, Sequences, FiniteSets, TLC

\* ---- bounds of the model ----
MaxPages == 4   \* longest list passed as pages=
MaxFiles == 2   \* longest list passed as files=
MaxReply == 5   \* largest number typed as a reply to the page prompt

\* ---- Python values ----
\* A Python value that is either None or a list.
None == [none |-> TRUE, items |-> <<>>]
List(s) == [none |-> FALSE, items |-> s]
\* bool(v) of None or of a list
Truthy(v) == ~v.none /\ Len(v.items) > 0

\* The kinds of element a caller may put in pages=.
ElementKinds == {"Embed", "str"}

RECURSIVE SeqsUpTo(_, _)
SeqsUpTo(S, n) ==
  IF n = 0 THEN {<<>>}
  ELSE LET shorter == SeqsUpTo(S, n - 1)
       IN shorter \cup {Append(s, x) : s \in {t \in shorter : Len(t) = n - 1}, x \in S}

\* A value of the reactions dict (and of the local reaction of paginator): -1 and +1 are ints, 0.0 and float(end)
\* are floats, "stop" and "input" are strs, and None.
IntVal(n) == [kind |-> "int", val |-> n]
FloatVal(n) == [kind |-> "float", val |-> n]
StrStop == [kind |-> "stop", val |-> 0]
StrInput == [kind |-> "input", val |-> 0]
NoneVal == [kind |-> "None", val |-> 0]

\* The outcomes of a call to the chat platform: success, a discord
\* HTTPException (Forbidden and NotFound are subclasses), or an exception
\* of another class (OSError, asyncio.TimeoutError from the HTTP layer).
Outcomes == {"ok", "HTTPException", "Exception"}

VARIABLES
  argPages, argPage, argFiles, argCompact, argHasInput,
  caller, raised,
  pages, files, compact, has_input, current, previous, end, reactions,
  tasks, is_running, message,
  pc, reaction, content, addTask, listeners,
  calls, shown, deleted

args == <<argPages, argPage, argFiles, argCompact, argHasInput>>
slots == <<pages, files, compact, has_input, current, previous, end, reactions,
           tasks, is_running, message>>
locals == <<pc, reaction, content, addTask>>
remote == <<shown, deleted>>
vars == <<args, caller, raised, slots, locals, listeners, calls, remote>>

\* ---- __init__ ----
\* self.reactions as built on lines 101-113, before the compact pruning.
InitialReactions(hasInput) ==
  LET base == [k \in {"first", "prev", "stop", "next", "last"} |->
                 CASE k = "first" -> FloatVal(0)
                   [] k = "prev" -> IntVal(-1)
                   [] k = "stop" -> StrStop
                   [] k = "next" -> IntVal(1)
                   [] k = "last" -> NoneVal]
  IN IF hasInput
       THEN [k \in DOMAIN base \cup {"input"} |->
               IF k = "input" THEN StrInput ELSE base[k]]
       ELSE base

\* The keys the compact pruning deletes, in the order of the for loop.
CompactKeys == <<"first", "last", "input">>

\* for key in (...): del self.reactions[key]  raises KeyError on a key
\* that is not in the dict.
DelRaises(r) == \E i \in 1..Len(CompactKeys) : CompactKeys[i] \notin DOMAIN r
DelKeys(r) ==
  [k \in DOMAIN r \ {CompactKeys[i] : i \in 1..Len(CompactKeys)} |-> r[k]]

\* self.pages = pages if pages else ([page] if page else None)
PagesField(ps, p) ==
  IF Truthy(ps) THEN ps ELSE IF p # "None" THEN List(<<p>>) ELSE None

\* self.files = files if files else ..., as the number of files held: n
\* files passed as files= (file=f is files=[f]), and 0 stands for None.
FilesField(n) == IF n > 0 THEN n ELSE 0

\* self.compact after lines 115-117.
CompactField(ps, c) == IF Truthy(ps) /\ Len(ps.items) = 2 THEN TRUE ELSE c

Construct ==
  /\ caller = "new"
  /\ LET ps == PagesField(argPages, argPage)
         c == CompactField(ps, argCompact)
         r == InitialReactions(argHasInput)
     IN IF c /\ DelRaises(r)
          THEN /\ caller' = "ctor_raised"
               /\ raised' = "KeyError"
               /\ UNCHANGED slots
          ELSE /\ caller' = "constructed"
               /\ raised' = "none"
               /\ pages' = ps
               /\ files' = FilesField(argFiles)
               /\ compact' = c
               /\ has_input' = argHasInput
               /\ current' = 0
               /\ previous' = 0
               /\ end' = 0
               /\ reactions' = IF c THEN DelKeys(r) ELSE r
               /\ tasks' = <<>>
               /\ is_running' = TRUE
               /\ message' = "None"
  /\ calls' = <<>>
  /\ UNCHANGED <<args, locals, listeners, remote>>

\* ---- start ----
AllEmbeds(ps) == \A i \in 1..Len(ps.items) : ps.items[i] = "Embed"

\* self.reactions[key] = value
SetItem(r, key, value) ==
  [k \in DOMAIN r \cup {key} |-> IF k = key THEN value ELSE r[k]]

\* The call raised exc before any await.
StartRaises(exc) ==
  /\ caller' = "start_raised"
  /\ raised' = exc
  /\ calls' = <<>>
  /\ UNCHANGED <<slots, locals, remote>>

\* StartSingle going on to create the task of the loop after its send.
StartSingleSpawns ==
  \E o \in Outcomes :
    /\ calls' = <<"send">>
    /\ caller' = IF o = "ok" THEN "started" ELSE "start_raised"
    /\ raised' = IF o = "ok" THEN "none" ELSE o
    /\ shown' = IF o = "ok" THEN 0 ELSE shown
    /\ tasks' = Append(tasks, "paginator")
    /\ pc' = "send"
    /\ UNCHANGED <<pages, files, compact, has_input, current, previous, end,
                   reactions, is_running, message>>
    /\ UNCHANGED <<reaction, content, addTask, deleted>>

\* len(self.pages) == 1: one send, whose failure reaches the caller.
StartSingle ==
  \E o \in Outcomes :
    /\ calls' = <<"send">>
    /\ caller' = IF o = "ok" THEN "started" ELSE "start_raised"
    /\ raised' = IF o = "ok" THEN "none" ELSE o
    /\ shown' = IF o = "ok" THEN 0 ELSE shown
    /\ UNCHANGED <<slots, locals, deleted>>

\* StartMany with the last glyph bound to len(self.pages).
StartManyLastIsLen ==
  /\ end' = Len(pages.items) - 1
  /\ reactions' = IF compact = FALSE
                    THEN SetItem(reactions, "last", FloatVal(Len(pages.items)))
                    ELSE reactions
  /\ tasks' = Append(tasks, "paginator")
  /\ pc' = "send"
  /\ caller' = "started"
  /\ raised' = "none"
  /\ calls' = <<>>
  /\ UNCHANGED <<pages, files, compact, has_input, current, previous,
                 is_running, message>>
  /\ UNCHANGED <<reaction, content, addTask, remote>>

StartMany ==
  /\ end' = Len(pages.items) - 1
  /\ reactions' = IF compact = FALSE
                    THEN SetItem(reactions, "last", FloatVal(Len(pages.items) - 1))
                    ELSE reactions
  /\ tasks' = Append(tasks, "paginator")
  /\ pc' = "send"
  /\ caller' = "started"
  /\ raised' = "none"
  /\ calls' = <<>>
  /\ UNCHANGED <<pages, files, compact, has_input, current, previous,
                 is_running, message>>
  /\ UNCHANGED <<reaction, content, addTask, remote>>

Start ==
  /\ caller = "constructed"
  /\ UNCHANGED <<args, listeners>>
  /\ IF pages.none THEN StartRaises("TypeError")        \* all() over None
     ELSE IF ~AllEmbeds(pages) THEN StartRaises("TypeError")
     ELSE IF Len(pages.items) = 1 THEN StartSingle
     ELSE IF Len(pages.items) = 0 THEN StartRaises("RuntimeError")
     ELSE StartMany

\* ---- helpers of the session ----
\* go_to_page without the shift from page number to index.
go_to_pageNoShift(number) == IF number > end THEN end ELSE number

\* go_to_page: the value assigned to self.current.
go_to_page(number) == IF number > end THEN end ELSE number - 1

\* The relative step without the revert at the edges.
RelativeStepNoRevert(cur, react) == cur + react

\* controller, isinstance(react, int): step and revert.
RelativeStep(cur, react) ==
  LET stepped == cur + react
  IN IF stepped < 0 \/ stepped > end THEN stepped - react ELSE stepped

\* seq[index] of a Python list of length n: the position read, or -1 for
\* IndexError.
PyIndex(n, index) ==
  IF index >= 0 /\ index < n THEN index
  ELSE IF index < 0 /\ index >= -n THEN n + index
  ELSE -1

\* embed_setter(index): exc is the exception it raises, page the position
\* of self.pages it returns, file whether it returns a file with it.
embed_setter(index) ==
  LET page == PyIndex(Len(pages.items), index)
  IN IF page = -1 THEN [exc |-> "IndexError", page |-> -1, file |-> FALSE]
     ELSE IF files > 0
       THEN IF files >= index
              THEN [exc |-> "none", page |-> page, file |-> FALSE]
              ELSE IF PyIndex(files, index) = -1
                THEN [exc |-> "IndexError", page |-> -1, file |-> FALSE]
                ELSE [exc |-> "none", page |-> page, file |-> TRUE]
       ELSE [exc |-> "none", page |-> page, file |-> FALSE]

\* A raw reaction event.
Emojis == {"first", "prev", "stop", "next", "last", "input", "other"}
Payloads == [message_id : {"msg", "other"}, user_id : {"author", "other"},
             emoji : Emojis]

\* check(payload), for a session whose self.message is set.
check(payload) ==
  IF payload.message_id # message THEN FALSE
  ELSE IF payload.user_id # "author" THEN FALSE
  ELSE payload.emoji \in DOMAIN reactions

\* The outcomes of a call on the bound message: none succeeds once the
\* message is deleted.
MessageOutcomes == IF deleted THEN Outcomes \ {"ok"} ELSE Outcomes

\* The positions at which a task is suspended and can be cancelled.
Live == {"send", "wait", "reply"}

\* Rewait with the listeners registered before the calls of issued.
RewaitFirst(issued) == <<"wait_for">> \o issued

\* The loop goes back to line 208 after the calls of issued, passes the
\* test of the while and registers its two wait_for listeners (lines
\* 210-217), written "wait_for".
Rewait(issued) == Append(issued, "wait_for")

\* ctx.send(embed=embed, file=file) on line 203, by what embed_setter gave.
SendCall(es) == IF es.file THEN "send_file" ELSE "send"

\* message.edit on lines 241-244, by what embed_setter gave.
EditCall(es) == IF es.file THEN "edit_file" ELSE "edit"

\* The wait_for listeners of the session that are registered and not
\* cancelled after a step: both while the loop is in asyncio.wait (lines
\* 210-221); none once a wait has returned, for the one that is done is
\* removed and the pending ones are cancelled (lines 223-224); and those
\* there were when the task of the loop was cancelled, for asyncio.wait
\* does not cancel the futures it waits for and stop cancels only the
\* tasks of self.__tasks (they stay until an event passes their check).
Listen ==
  listeners' = IF pc' = "wait" THEN {"add", "remove"}
               ELSE IF pc' = "cancelled" THEN listeners
               ELSE {}

\* ---- stop ----
\* The remote call stop issues.
StopCall(t) == IF t THEN "clear_reactions" ELSE "delete"

\* with suppress(discord.HTTPException, discord.Forbidden): the first block
\* of stop ends normally.
StopSuppresses(o) == o \in {"ok", "HTTPException"}

\* The second block of stop, run after the remote call ended with o;
\* self is TRUE when paginator() itself is the caller.
StopBody(t, o, self) ==
  /\ is_running' = FALSE
  /\ tasks' = <<>>
  /\ pc' = IF self THEN "done"
           ELSE IF (\E i \in 1..Len(tasks) : tasks[i] = "paginator") /\ pc \in Live
             THEN "cancelled" ELSE pc
  /\ addTask' = IF (\E i \in 1..Len(tasks) : tasks[i] = "add_reactions")
                   /\ addTask = "running"
                  THEN "cancelled" ELSE addTask
  /\ deleted' = (deleted \/ (~t /\ o = "ok"))

\* await self.stop(timed_out=t) inside paginator(), self.message set.
StopFromLoop(t, o) ==
  /\ IF StopSuppresses(o)
       THEN /\ StopBody(t, o, TRUE)
            /\ calls' = <<StopCall(t)>>
       ELSE /\ pc' = "wait"      \* swallowed by the suppress of the loop
            /\ calls' = Rewait(<<StopCall(t)>>)
            /\ UNCHANGED <<is_running, tasks, addTask, deleted>>
  /\ UNCHANGED <<pages, files, compact, has_input, end, reactions, message>>
  /\ UNCHANGED <<content, shown, caller, raised>>

\* stop called by the code that owns the session.
ExternalStop(t, o) ==
  /\ caller = "started"
  /\ IF message = "None"
       THEN /\ raised' = "AttributeError"
            /\ calls' = <<>>
            /\ UNCHANGED <<is_running, tasks, pc, addTask, deleted>>
       ELSE /\ o \in MessageOutcomes
            /\ calls' = <<StopCall(t)>>
            /\ IF StopSuppresses(o)
                 THEN /\ StopBody(t, o, FALSE)
                      /\ raised' = "none"
                 ELSE /\ raised' = o
                      /\ UNCHANGED <<is_running, tasks, pc, addTask, deleted>>
  /\ UNCHANGED <<pages, files, compact, has_input, current, previous, end,
                 reactions, message>>
  /\ UNCHANGED <<reaction, content, shown, caller, args>>
  /\ Listen

\* ---- add_reactions ----
AddReactions(o) ==
  /\ addTask = "running"
  /\ IF message = "None"
       THEN /\ addTask' = "crashed"
            /\ calls' = <<>>
       ELSE /\ o \in MessageOutcomes
            /\ addTask' = IF o = "Exception" THEN "crashed" ELSE "done"
            /\ calls' = <<"add_reaction">>
  /\ UNCHANGED <<args, caller, raised, slots, remote, pc, reaction, content>>
  /\ Listen

\* ---- paginator ----
\* Lines 201-206 and the first test of the while.
PaginatorSend(o) ==
  /\ pc = "send"
  /\ IF o = "Exception"
       THEN /\ pc' = "crashed"
            /\ calls' = <<SendCall(embed_setter(0))>>
            /\ UNCHANGED <<message, shown, tasks, addTask>>
       ELSE /\ calls' = IF is_running
                          THEN Rewait(<<SendCall(embed_setter(0))>>)
                          ELSE <<SendCall(embed_setter(0))>>
            /\ message' = IF o = "ok" THEN "msg" ELSE message
            /\ shown' = IF o = "ok" THEN embed_setter(0).page ELSE shown
            /\ tasks' = IF Len(pages.items) > 1
                          THEN Append(tasks, "add_reactions") ELSE tasks
            /\ addTask' = IF Len(pages.items) > 1 THEN "running" ELSE addTask
            /\ pc' = IF is_running THEN "wait" ELSE "done"
  /\ UNCHANGED <<pages, files, compact, has_input, current, previous, end,
                 reactions, is_running>>
  /\ UNCHANGED <<args, caller, raised, reaction, content, deleted>>
  /\ Listen

\* Lines 236-244 with self.current about to be cur, then the test of the
\* while (self.__is_running is true on this path).
Render(cur, o, before) ==
  /\ current' = cur
  /\ pc' = "wait"
  /\ LET es == embed_setter(cur)
     IN IF current = cur
          THEN /\ calls' = Rewait(before)  \* continue
               /\ UNCHANGED shown
          ELSE IF es.exc # "none"
            THEN /\ calls' = Rewait(before)  \* swallowed by the inner suppress
                 /\ UNCHANGED shown
            ELSE /\ calls' = Rewait(Append(before, EditCall(es)))
                 /\ shown' = IF o = "ok" THEN es.page ELSE shown

\* The iteration ends in the outer suppress(Exception), which swallows
\* exc, after the remote calls of issued.
Swallowed(exc, issued) ==
  /\ calls' = Rewait(issued)
  /\ pc' = "wait"
  /\ UNCHANGED <<current, shown>>

\* asyncio.wait returns a reaction event that passed check: lines 230-244.
Accept(payload, o) ==
  /\ pc = "wait"
  /\ message # "None"
  /\ check(payload)
  /\ o \in MessageOutcomes
  /\ previous' = current
  /\ reaction' = reactions[payload.emoji]
  /\ UNCHANGED <<args, caller, raised>>
  /\ LET react == reactions[payload.emoji]
     IN CASE react.kind = "stop" ->
               /\ StopFromLoop(FALSE, o)
               /\ UNCHANGED current
          [] react.kind = "input" ->
               /\ IF o = "ok"
                    THEN /\ pc' = "reply"
                         /\ calls' = <<"send">>
                         /\ UNCHANGED <<current, shown>>
                    ELSE Swallowed(o, <<"send">>)
               /\ content' = -1
               /\ UNCHANGED <<pages, files, compact, has_input, end, reactions,
                              tasks, is_running, message>>
               /\ UNCHANGED <<addTask, deleted>>
          [] react.kind = "int" ->
               /\ Render(RelativeStep(current, react.val), o, <<>>)
               /\ UNCHANGED <<pages, files, compact, has_input, end, reactions,
                              tasks, is_running, message>>
               /\ UNCHANGED <<content, addTask, deleted>>
          [] react.kind = "float" ->
               /\ Render(react.val, o, <<>>)
               /\ UNCHANGED <<pages, files, compact, has_input, end, reactions,
                              tasks, is_running, message>>
               /\ UNCHANGED <<content, addTask, deleted>>
          [] OTHER ->
               /\ Swallowed("TypeError", <<>>)
               /\ UNCHANGED <<pages, files, compact, has_input, end, reactions,
                              tasks, is_running, message>>
               /\ UNCHANGED <<content, addTask, deleted>>
  /\ Listen

\* A reaction event that check turns down: the wait goes on.
Ignore(payload) ==
  /\ pc = "wait"
  /\ message # "None"
  /\ ~check(payload)
  /\ calls' = <<>>
  /\ UNCHANGED <<args, caller, raised, slots, locals, remote>>
  /\ Listen

\* A reaction event while self.message is None: check raises
\* AttributeError, result() re-raises it and the iteration is dropped.
CheckRaises ==
  /\ pc = "wait"
  /\ message = "None"
  /\ Swallowed("AttributeError", <<>>)
  /\ UNCHANGED <<args, caller, raised, slots, remote, reaction, content, addTask>>
  /\ Listen

\* asyncio.wait returns with nothing done: line 228.
Timeout(o) ==
  /\ pc = "wait"
  /\ UNCHANGED <<args, current, previous, reaction>>
  /\ IF message = "None"
       THEN /\ Swallowed("AttributeError", <<>>)
            /\ UNCHANGED <<pages, files, compact, has_input, end, reactions,
                           tasks, is_running, message>>
            /\ UNCHANGED <<content, addTask, deleted, caller, raised>>
       ELSE /\ o \in MessageOutcomes
            /\ StopFromLoop(TRUE, o)
  /\ Listen

\* controller, react == "input": a reply that passed the inner check and
\* that int() parses (lines 155-159), then lines 236-244.
InputReply(n, o) ==
  /\ pc = "reply"
  /\ o \in MessageOutcomes
  /\ content' = n
  /\ Render(go_to_page(n), o, <<"delete_messages">>)
  /\ UNCHANGED <<pages, files, compact, has_input, previous, end, reactions,
                 tasks, is_running, message>>
  /\ UNCHANGED <<args, caller, raised, reaction, addTask, deleted>>
  /\ Listen

\* A reply of digits that int() rejects (str.isdigit accepts superscript
\* digits): ValueError leaves controller.
InputNotInt ==
  /\ pc = "reply"
  /\ Swallowed("ValueError", <<>>)
  /\ UNCHANGED <<args, caller, raised, slots, remote, reaction, content, addTask>>
  /\ Listen

\* InputTimeout with the loop ending on the timeout of the reply.
InputTimeoutEnds(o) ==
  /\ pc = "reply"
  /\ IF o = "ok"
       THEN /\ calls' = <<"send", "delete_messages">>
            /\ pc' = "done"
       ELSE /\ calls' = <<"send">>
            /\ pc' = "done"
  /\ UNCHANGED <<args, caller, raised, slots, remote, reaction, content, addTask>>
  /\ Listen

\* wait_for("message") times out: lines 149-153 and 158-159.
InputTimeout(o) ==
  /\ pc = "reply"
  /\ IF o = "ok"
       THEN /\ calls' = Rewait(<<"send", "delete_messages">>)
            /\ pc' = "wait"
       ELSE /\ calls' = Rewait(<<"send">>)  \* swallowed by the suppress of the loop
            /\ pc' = "wait"
  /\ UNCHANGED <<args, caller, raised, slots, remote, reaction, content, addTask>>
  /\ Listen

\* ---- initial state: the arguments of the constructor call ----
Init ==
  /\ argPages \in {None} \cup {List(s) : s \in SeqsUpTo(ElementKinds, MaxPages)}
  /\ argPage \in {"None", "Embed"}
  /\ argFiles \in 0..MaxFiles
  \* a caller passes page= or pages=, not both
  /\ Truthy(argPages) => argPage = "None"
  /\ argCompact \in BOOLEAN
  /\ argHasInput \in BOOLEAN
  /\ caller = "new"
  /\ raised = "none"
  \* the object does not exist yet: its slots hold placeholders
  /\ pages = None
  /\ files = 0
  /\ compact = FALSE
  /\ has_input = FALSE
  /\ current = 0
  /\ previous = 0
  /\ end = 0
  /\ reactions = [k \in {} |-> NoneVal]
  /\ tasks = <<>>
  /\ is_running = FALSE
  /\ message = "None"
  /\ pc = "none"
  /\ reaction = NoneVal
  /\ content = -1
  /\ addTask = "none"
  /\ listeners = {}
  /\ calls = <<>>
  /\ shown = -1
  /\ deleted = FALSE

Next ==
  \/ Construct
  \/ Start
  \/ \E o \in Outcomes : PaginatorSend(o)
  \/ \E o \in Outcomes : AddReactions(o)
  \/ \E p \in Payloads, o \in Outcomes : Accept(p, o)
  \/ \E p \in Payloads : Ignore(p)
  \/ CheckRaises
  \/ \E o \in Outcomes : Timeout(o)
  \/ \E n \in 0..MaxReply, o \in Outcomes : InputReply(n, o)
  \/ InputNotInt
  \/ \E o \in Outcomes : InputTimeout(o)
  \/ \E t \in BOOLEAN, o \in Outcomes : ExternalStop(t, o)

Spec == Init /\ [][Next]_vars

\* ---- properties ----
\* The session was started with two or more panels.
MultiPanel == caller = "started" /\ pc # "none"

\* C1: in every state after a multi-panel start, 0 <= current <= end,
\* whatever directives were accepted, numeric replies of digits (0
\* included) among them.
C1_IndexInRange == MultiPanel => (0 <= current /\ current <= end)

\* A step that is a call of stop by the owning code.
StopCalled == \E t \in BOOLEAN, o \in Outcomes : ExternalStop(t, o)

\* C2: a call of stop on a session that is already stopped issues no remote
\* call, changes no slot of the session and does not raise.
C2_StopIdempotent ==
  [][(~is_running /\ StopCalled) =>
       (calls' = <<>> /\ raised' = "none" /\ UNCHANGED slots)]_vars

\* A step in which the loop accepts an event bound to the stop directive.
StopDirective ==
  \E p \in Payloads, o \in Outcomes :
    Accept(p, o) /\ reactions[p.emoji].kind = "stop"

\* A step in which the idle timer of the loop fires.
IdleTimeout == \E o \in Outcomes : Timeout(o)

\* C3: every call of stop on a multi-panel session (from the idle timer, from
\* the stop directive or from the owning code) ends with running false, the
\* task list empty and no task of the session left to run, whatever the
\* remote call did and also when no message was bound.
C3_StopReachesTerminal ==
  [][(MultiPanel /\ (StopCalled \/ StopDirective \/ IdleTimeout)) =>
       (~is_running' /\ tasks' = <<>> /\ pc' \notin Live
        /\ addTask' # "running")]_vars

\* C4: when the idle timer fires the session requests clear_reactions and
\* no delete, running becomes false and the loop exits.
C4_IdleTimeoutStops ==
  [][IdleTimeout =>
       (calls' = <<"clear_reactions">> /\ ~is_running' /\ pc' = "done")]_vars

\* C5: an accepted event bound to the stop directive requests the deletion
\* of the bound message and no edit, leaves current alone, sets running to
\* false and makes the loop exit.
C5_StopDirective ==
  [][StopDirective =>
       (calls' = <<"delete">> /\ ~is_running' /\ current' = current
        /\ pc' = "done")]_vars

\* The constructor was given no panel at all.
ZeroPanels == ~Truthy(argPages) /\ argPage = "None"
\* The constructor was given a list holding something that is no panel.
NonPanel == \E i \in 1..Len(argPages.items) : argPages.items[i] # "Embed"
\* start was called and has returned or raised.
StartCalled == caller \in {"started", "start_raised"}

\* C6: start of a session with zero panels raises the empty-content error
\* (RuntimeError, line 281), start of a session with a non-panel element
\* raises the wrong-type error (TypeError, line 272); no message was sent
\* and no task created.
C6_ContentErrors ==
  /\ (StartCalled /\ ZeroPanels) =>
       (caller = "start_raised" /\ raised = "RuntimeError"
        /\ shown = -1 /\ tasks = <<>> /\ pc = "none")
  /\ (StartCalled /\ NonPanel) =>
       (caller = "start_raised" /\ raised = "TypeError"
        /\ shown = -1 /\ tasks = <<>> /\ pc = "none")

\* The constructor was given a list of n panels.
Panels(n) == ~argPages.none /\ Len(argPages.items) = n /\ AllEmbeds(argPages)
\* The constructor was given a list of two or more panels.
TwoOrMorePanels ==
  ~argPages.none /\ Len(argPages.items) >= 2 /\ AllEmbeds(argPages)

\* C7: for every compact and has_input, the construction of a session of
\* exactly 2 panels succeeds, the session is compact and its reactions
\* hold none of first, last and input.
C7_TwoPanelsCompact ==
  (caller # "new" /\ Panels(2)) =>
    (caller # "ctor_raised" /\ compact
     /\ DOMAIN reactions \cap {"first", "last", "input"} = {})

\* The keys the reaction map is to have.
ExpectedKeys(c, i) ==
  IF c THEN {"prev", "stop", "next"}
  ELSE {"first", "prev", "stop", "next", "last"}
         \cup (IF i THEN {"input"} ELSE {})

\* C8: for every compact and has_input and every count of panels >= 2,
\* once the session was constructed and started its reactions have the
\* keys of its mode, first bound to 0 and last to end.
C8_ReactionMap ==
  (caller \notin {"new", "constructed"} /\ TwoOrMorePanels) =>
    /\ caller = "started"
    /\ end = Len(argPages.items) - 1
    /\ DOMAIN reactions =
         ExpectedKeys(argCompact \/ Len(argPages.items) = 2, argHasInput)
    /\ "first" \in DOMAIN reactions => reactions["first"].val = 0
    /\ "last" \in DOMAIN reactions =>
         (reactions["last"].kind = "float" /\ reactions["last"].val = end)

\* C9: a relative directive of step -1 or +1 moves current by the step
\* when the result is in 0..end and leaves it where it was otherwise, at
\* both edges; so a step taken inside 0..end ends inside 0..end.
C9_RelativeStep ==
  reaction.kind = "int" =>
    /\ reaction.val \in {-1, 1}
    /\ current = (IF previous + reaction.val \in 0..end
                    THEN previous + reaction.val ELSE previous)
    /\ previous \in 0..end => current \in 0..end

\* A next on the last of three or more panels was turned down.
C9_Witness ==
  /\ reaction = IntVal(1)
  /\ end >= 2
  /\ previous = end
  /\ current = end
  /\ pc = "wait"

\* C10: after a numeric reply n to the input directive current is end when
\* n > end + 1 and n - 1 otherwise.
C10_NumericJump ==
  (reaction.kind = "input" /\ content >= 0) =>
    current = (IF content > end + 1 THEN end ELSE content - 1)

\* A reply beyond the last page number moved the session to the last panel.
C10_Witness ==
  /\ reaction.kind = "input"
  /\ content > end + 1
  /\ previous # end
  /\ current = end
  /\ pc = "wait"

\* C11: in a session that is not compact, jump-to-first is bound to 0 and
\* jump-to-last to end, and an accepted absolute directive sets current to
\* the index it is bound to, from every current.
C11_AbsoluteJumps ==
  (MultiPanel /\ ~compact) =>
    /\ reactions["first"] = FloatVal(0)
    /\ reactions["last"] = FloatVal(end)
    /\ reaction.kind = "float" => current = reaction.val

\* A jump-to-last from another panel of a session of three or more panels.
C11_Witness ==
  /\ ~compact
  /\ reaction = FloatVal(end)
  /\ end >= 2
  /\ previous # end
  /\ current = end
  /\ pc = "wait"

\* The session holds exactly one panel.
OnePanel == ~pages.none /\ Len(pages.items) = 1 /\ AllEmbeds(pages)

\* C12: start of a session of exactly one panel issues one send and nothing
\* else: no task is created, no reaction added, no listener registered, and
\* no later step sends again or changes the session.
C12_SinglePanel ==
  /\ [](OnePanel /\ StartCalled =>
          /\ tasks = <<>> /\ pc = "none" /\ addTask = "none"
          /\ listeners = {} /\ message = "None"
          /\ calls \in {<<>>, <<"send">>})
  /\ [][(OnePanel /\ caller = "constructed") => calls' = <<"send">>]_vars
  /\ [][(OnePanel /\ StartCalled) =>
          (calls' = <<>> /\ UNCHANGED <<slots, locals, listeners, remote>>)]_vars

\* A session of one panel was started and its panel sent.
C12_Witness ==
  /\ OnePanel
  /\ caller = "started"
  /\ calls = <<"send">>
  /\ shown = 0

\* name is one of the calls of the sequence issued.
Has(issued, name) == \E i \in 1..Len(issued) : issued[i] = name

\* A reaction event that does not pass the acceptance predicate reaches
\* the listeners of the session.
RejectedEvent == (\E p \in Payloads : Ignore(p)) \/ CheckRaises

\* C13: an event that fails any of the three conditions of the acceptance
\* predicate (message identity, actor identity, symbol) leaves the session
\* state and the displayed panel unchanged and does not reset the pending
\* wait of the loop: the listeners are not registered anew.
C13_RejectedEventInert ==
  [][RejectedEvent =>
       (UNCHANGED <<slots, shown, pc>> /\ ~Has(calls', "wait_for"))]_vars

\* C14: stop called on a running session of several panels, the loop
\* suspended in its wait included, returns with both listener waits and
\* the reaction-attachment task cancelled: no listener of the session
\* remains registered.
C14_StopCancelsListeners ==
  [][(MultiPanel /\ is_running /\ StopCalled /\ raised' = "none") =>
       (listeners' = {} /\ addTask' # "running")]_vars

\* C15: between the start of a session of several panels and the moment
\* running becomes false, one task of the navigation loop is active.
C15_OneLoopTask == (MultiPanel /\ is_running) => pc \in Live

\* The edits of the bound message among the calls of issued.
Edits(issued) == {i \in 1..Len(issued) : issued[i] \in {"edit", "edit_file"}}

InitialSend == \E o \in Outcomes : PaginatorSend(o)

\* C17: with attachments supplied and a same-index attachment for the
\* target index, the initial send of index 0 carries the attachment of
\* index 0 and no edit to such an index goes without its attachment.
C17_AttachmentShown ==
  [][/\ (InitialSend /\ 0 < files) => Has(calls', "send_file")
     /\ (0 <= current' /\ current' < files) => ~Has(calls', "edit")]_vars

\* The wait for the numeric reply times out.
ReplyTimeout == \E o \in Outcomes : InputTimeout(o)

\* C18: when the wait for the numeric reply times out, currentIndex is
\* unchanged, running stays true, no edit of the bound message is issued
\* and the loop waits for the next reaction event.
C18_ReplyTimeout ==
  [][ReplyTimeout =>
       /\ current' = current
       /\ is_running'
       /\ Edits(calls') = {}
       /\ shown' = shown
       /\ pc' = "wait"
       /\ listeners' = {"add", "remove"}]_vars

\* The input directive timed out and the loop waits again.
C18_Witness ==
  /\ reaction = StrInput
  /\ content = -1
  /\ calls = <<"send", "delete_messages", "wait_for">>
  /\ pc = "wait"
  /\ is_running

\* C19: the render step is total: for every index of [0, lastIndex] and
\* every attachment list it raises nothing and returns panels[index], with
\* no attachment when there is no file of the same index.
C19_RenderTotal ==
  MultiPanel =>
    \A i \in 0..end :
      /\ embed_setter(i).exc = "none"
      /\ embed_setter(i).page = i
      /\ i >= files => ~embed_setter(i).file

\* An event is accepted, or the reply of the input directive arrives, and
\* every remote call of the step succeeds.
Directive ==
  \/ \E p \in Payloads : Accept(p, "ok")
  \/ \E n \in 0..MaxReply : InputReply(n, "ok")

\* C20: the panel shown is panels[currentIndex] whenever the loop waits:
\* a directive whose remote calls succeed and that changes currentIndex is
\* followed by one edit showing the new panel before the next wait, and
\* one that leaves currentIndex unchanged issues no edit.
C20_ShownIsCurrent ==
  [][(Directive /\ shown = current /\ pc' = "wait") =>
       /\ shown' = current'
       /\ current' # current => Cardinality(Edits(calls')) = 1
       /\ current' = current => Edits(calls') = {}]_vars

====
